---------------------------- MODULE Spec2Model ----------------------------
(***************************************************************************)
(* wordblitz: the game engine of src/app/routes.py over the storage steps  *)
(* of src/app/db.py.  Every query_db / execute_db call takes a connection, *)
(* runs one statement and commits (db.py:44-72), so each call is one       *)
(* atomic storage step and a request handler is a sequence of such steps.  *)
(***************************************************************************)
EXTENDS Integers, Sequences, FiniteSets, TLC

\* ------------------------------------------------------------------ bounds
\* size of the lowercase alphabet the evaluator is checked over
NumLetters == 2
\* request workers that may be inside a handler at the same time
NumReqs == 2
\* requests started in a run with interleaved handlers
MaxRequests == 4
\* rows the games table may hold
MaxGames == 2

\* ------------------------------------------------------------------ words
AllLetters == <<"a", "b", "c", "d">>
Letters == {AllLetters[i] : i \in 1..NumLetters}
Upper == {"A", "B"}
Space == " "
\* str.lower() on one character
LowerChar(c) == IF c = "A" THEN "a" ELSE IF c = "B" THEN "b" ELSE c
\* str.isalpha() on one character (upper-case letters cannot survive lower())
IsAlphaChar(c) == c \in {AllLetters[i] : i \in 1..Len(AllLetters)} \cup Upper

RECURSIVE LStrip(_)
LStrip(s) == IF s # <<>> /\ Head(s) = Space THEN LStrip(Tail(s)) ELSE s
RECURSIVE RStrip(_)
RStrip(s) ==
  IF s # <<>> /\ s[Len(s)] = Space THEN RStrip(SubSeq(s, 1, Len(s) - 1)) ELSE s
\* str.strip()
Strip(s) == RStrip(LStrip(s))
\* str.lower()
Lower(s) == [i \in 1..Len(s) |-> LowerChar(s[i])]
\* data.get('guess', '').strip().lower()
Normalize(raw) == Lower(Strip(raw))
\* str.isalpha(): non-empty and every character a letter
IsAlpha(s) == s # <<>> /\ \A i \in 1..Len(s) : IsAlphaChar(s[i])
\* faulty variant: the length is checked and isalpha() is not
WellFormedLengthOnly(w) == Len(w) = 5

\* the check of routes.py:243, negated
WellFormed(w) == Len(w) = 5 /\ IsAlpha(w)

\* the words table as seed_words leaves it: lower-cased words
Bank == { <<"a", "a", "b", "b", "b">>, <<"a", "b", "a", "b", "a">> }
WordId(w) == IF w = <<"a", "a", "b", "b", "b">> THEN 1 ELSE 2
WordOf(id) == CHOOSE w \in Bank : WordId(w) = id
WordIds == {WordId(w) : w \in Bank}

\* request bodies' 'guess' field: two bank words, a bank word in upper case
\* between spaces, a word not in the bank, a short word, a word with a digit
RawGuesses ==
  { <<"a", "a", "b", "b", "b">>,
    <<"a", "b", "a", "b", "a">>,
    <<" ", "A", "B", "a", "b", "A", " ">>,
    <<"b", "b", "b", "b", "b">>,
    <<"a", "b", "a", "b">>,
    <<"a", "b", "1", "b", "a">> }

\* ------------------------------------------------------------- evaluator
None == [letter |-> "", status |-> "none"]

\* faulty variant of the first pass: an exact match does not consume the
\* target's letter
RECURSIVE FirstPassNoConsume(_, _, _, _, _)
FirstPassNoConsume(guess, target, i, result, remaining) ==
  IF i > 5 THEN [result |-> result, remaining |-> remaining]
  ELSE IF guess[i] = target[i]
       THEN FirstPassNoConsume(guess, target, i + 1,
                      [result EXCEPT ![i] = [letter |-> guess[i], status |-> "correct"]],
                      remaining)
       ELSE FirstPassNoConsume(guess, target, i + 1, result, remaining)

\* first pass, positions i..5: result and target_remaining after the loop
RECURSIVE FirstPass(_, _, _, _, _)
FirstPass(guess, target, i, result, remaining) ==
  IF i > 5 THEN [result |-> result, remaining |-> remaining]
  ELSE IF guess[i] = target[i]
       THEN FirstPass(guess, target, i + 1,
                      [result EXCEPT ![i] = [letter |-> guess[i], status |-> "correct"]],
                      [remaining EXCEPT ![i] = ""])
       ELSE FirstPass(guess, target, i + 1, result, remaining)

\* list.index(letter): the first position holding the letter
IndexOf(remaining, letter) ==
  CHOOSE k \in 1..Len(remaining) :
    /\ remaining[k] = letter
    /\ \A j \in 1..(k - 1) : remaining[j] # letter

\* faulty variant of the second pass: a 'present' mark does not consume the
\* target's letter
RECURSIVE SecondPassNoConsume(_, _, _, _)
SecondPassNoConsume(guess, i, result, remaining) ==
  IF i > 5 THEN result
  ELSE IF result[i] # None THEN SecondPassNoConsume(guess, i + 1, result, remaining)
  ELSE IF \E k \in 1..Len(remaining) : remaining[k] = guess[i]
       THEN SecondPassNoConsume(guess, i + 1,
                       [result EXCEPT ![i] = [letter |-> guess[i], status |-> "present"]],
                       remaining)
       ELSE SecondPassNoConsume(guess, i + 1,
                       [result EXCEPT ![i] = [letter |-> guess[i], status |-> "absent"]],
                       remaining)

\* second pass, positions i..5
RECURSIVE SecondPass(_, _, _, _)
SecondPass(guess, i, result, remaining) ==
  IF i > 5 THEN result
  ELSE IF result[i] # None THEN SecondPass(guess, i + 1, result, remaining)
  ELSE IF \E k \in 1..Len(remaining) : remaining[k] = guess[i]
       THEN SecondPass(guess, i + 1,
                       [result EXCEPT ![i] = [letter |-> guess[i], status |-> "present"]],
                       [remaining EXCEPT ![IndexOf(remaining, guess[i])] = ""])
       ELSE SecondPass(guess, i + 1,
                       [result EXCEPT ![i] = [letter |-> guess[i], status |-> "absent"]],
                       remaining)

EvaluateGuess(guess, target) ==
  LET first == FirstPass(guess, target, 1, [i \in 1..5 |-> None], target)
  IN  SecondPass(guess, 1, first.result, first.remaining)

\* ------------------------------------------------------------------ state
Reqs == 1..NumReqs
Fingerprints == {"fp1", "fp2"}
\* request bodies' 'name' field
RawNames == { <<>>, <<" ">>, <<" ", "a", " ">> }

VARIABLES
  players,   \* table players: row id = index; [name, fingerprint]
  games,     \* table games: row id = index
  guesses,   \* table guesses: for each game id, its rows in the order inserted
  pc,        \* where each worker is inside its handler
  loc,       \* each worker's local variables
  resp,      \* the response of each worker's latest request, once returned
  nreq,      \* requests started so far, where the run bounds them
  pre,       \* the tables as they were when the latest request arrived
  ev,        \* the evaluator on its own: inputs and result
  lb         \* the leaderboard and stats queries on their own: view and results

vars == <<players, games, guesses, pc, loc, resp, nreq, pre, ev, lb>>
db == <<players, games, guesses>>

NoWord == <<>>
NoLoc ==
  [fp |-> "", name |-> <<>>, raw |-> <<>>, pid |-> 0, gid |-> 0, status |-> "",
   num_guesses |-> 0,
   target |-> NoWord, wid |-> 0, guess_word |-> NoWord, guess_number |-> 0,
   result |-> <<>>, new_status |-> "", lost |-> FALSE]
\* a NULL average, and float() of none
NoAvg == <<>>

\* the body stats answers when the view has no row of the player
NoStats ==
  [games_won |-> 0, games_lost |-> 0, avg_guesses |-> NoAvg, current_streak |-> 0,
   best_streak |-> 0]
NoResp ==
  [op |-> "", fp |-> "", raw |-> <<>>, code |-> 0, error |-> "", player |-> 0, game_id |-> 0,
   status |-> "", num_guesses |-> 0, guess |-> NoWord, guesses |-> <<>>,
   answer |-> NoWord, stats |-> NoStats]
NoEv ==
  [phase |-> "off", guess |-> NoWord, target |-> NoWord, result |-> <<>>,
   again |-> <<>>]
NoLb ==
  [phase |-> "off", view |-> <<>>, rows |-> {}, champions |-> <<>>,
   prolific |-> <<>>, stats |-> NoStats]
Tables == [players |-> players, games |-> games, guesses |-> guesses]

\* jsonify({'error': ...}), code
ErrorResp(op, fp, code, error) ==
  [NoResp EXCEPT !.op = op, !.fp = fp, !.code = code, !.error = error]

\* the same for a guess request, whose body carried raw
GuessError(fp, raw, code, error) ==
  [ErrorResp("guess", fp, code, error) EXCEPT !.raw = raw]

\* _player_by_fingerprint: the ids of the rows the SELECT matches
PlayerByFingerprint(fp) ==
  {p \in 1..Len(players) : players[p].fingerprint = fp}

\* SELECT ... FROM games WHERE player_id = %s AND status = 'active'
ActiveGames(pid) ==
  {g \in 1..Len(games) : games[g].player_id = pid /\ games[g].status = "active"}

\* SELECT ... FROM guesses WHERE game_id = %s: positions in the game's rows
GuessRows(gid) == 1..Len(guesses[gid])

Min(S) == CHOOSE x \in S : \A y \in S : x <= y

\* faulty variant: the rows in any order (no ORDER BY)
RECURSIVE AnyOrder(_, _)
AnyOrder(gid, rows) ==
  IF rows = {} THEN { <<>> }
  ELSE UNION { { <<i>> \o rest : rest \in AnyOrder(gid, rows \ {i}) } : i \in rows }

\* ORDER BY guess_number: every order of the rows that is ascending in
\* guess_number (rows with equal numbers come in any order)
RECURSIVE OrderByNumber(_, _)
OrderByNumber(gid, rows) ==
  IF rows = {} THEN { <<>> }
  ELSE LET m == Min({guesses[gid][i].guess_number : i \in rows})
           firsts == {i \in rows : guesses[gid][i].guess_number = m}
       IN  UNION { { <<i>> \o rest : rest \in OrderByNumber(gid, rows \ {i}) } :
                   i \in firsts }

\* the 'guesses' list of a response, from the selected rows in order
SerializeGuesses(gid, order) ==
  [k \in 1..Len(order) |->
     [guess |-> guesses[gid][order[k]].guess_word,
      guess_number |-> guesses[gid][order[k]].guess_number,
      result |-> guesses[gid][order[k]].result]]

\* a handler returns: the worker is free again
Return(r, response) ==
  /\ resp' = [resp EXCEPT ![r] = response]
  /\ pc' = [pc EXCEPT ![r] = "idle"]
  /\ loc' = [loc EXCEPT ![r] = NoLoc]

\* a request arrives at a free worker
Arrive(r, capped) ==
  /\ pc[r] = "idle"
  /\ capped => nreq < MaxRequests
  /\ nreq' = IF capped THEN nreq + 1 ELSE nreq
  /\ pre' = Tables

Init ==
  /\ players = <<>>
  /\ games = <<>>
  /\ guesses = [g \in 1..MaxGames |-> <<>>]
  /\ pc = [r \in Reqs |-> "idle"]
  /\ loc = [r \in Reqs |-> NoLoc]
  /\ resp = [r \in Reqs |-> NoResp]
  /\ nreq = 0
  /\ pre = [players |-> <<>>, games |-> <<>>, guesses |-> [g \in 1..MaxGames |-> <<>>]]
  /\ ev = NoEv
  /\ lb = NoLb

\* --------------------------------------------------------------- register
\* the same for a register request, whose body carried raw
RegisterError(fp, raw, code, error) ==
  [ErrorResp("register", fp, code, error) EXCEPT !.raw = raw]

\* faulty variant: register without the check for an existing player
RegisterLookupNoConflict(r, capped) ==
  /\ Arrive(r, capped)
  /\ UNCHANGED <<db, ev, lb>>
  /\ \E fp \in Fingerprints, raw \in RawNames :
       LET name == Strip(raw) IN
       IF name = <<>>
       THEN Return(r, RegisterError(fp, raw, 400, "InvalidInput"))
       ELSE /\ pc' = [pc EXCEPT ![r] = "reg_insert"]
            /\ loc' = [loc EXCEPT ![r] = [NoLoc EXCEPT !.fp = fp, !.raw = raw,
                                                       !.name = name]]
            /\ resp' = [resp EXCEPT ![r] = NoResp]

\* register, up to the SELECT by fingerprint
RegisterLookup(r, capped) ==
  /\ Arrive(r, capped)
  /\ UNCHANGED <<db, ev, lb>>
  /\ \E fp \in Fingerprints, raw \in RawNames :
       LET name == Strip(raw) IN
       IF name = <<>>
       THEN Return(r, RegisterError(fp, raw, 400, "InvalidInput"))
       ELSE IF PlayerByFingerprint(fp) # {}
       THEN Return(r, RegisterError(fp, raw, 409, "Conflict"))
       ELSE /\ pc' = [pc EXCEPT ![r] = "reg_insert"]
            /\ loc' = [loc EXCEPT ![r] = [NoLoc EXCEPT !.fp = fp, !.raw = raw,
                                                       !.name = name]]
            /\ resp' = [resp EXCEPT ![r] = NoResp]

\* register: the INSERT INTO players and the 201 response
RegisterInsert(r) ==
  /\ pc[r] = "reg_insert"
  /\ players' = Append(players, [name |-> loc[r].name, fingerprint |-> loc[r].fp])
  /\ Return(r, [NoResp EXCEPT !.op = "register", !.fp = loc[r].fp,
                              !.raw = loc[r].raw, !.code = 201,
                              !.player = Len(players) + 1])
  /\ UNCHANGED <<games, guesses, nreq, pre, ev, lb>>

\* --------------------------------------------------------------- new_game
\* new_game, up to the SELECT of the player
NewGameLookup(r, capped) ==
  /\ Arrive(r, capped)
  /\ UNCHANGED <<db, ev, lb>>
  /\ \E fp \in Fingerprints :
       IF PlayerByFingerprint(fp) = {}
       THEN Return(r, ErrorResp("new_game", fp, 401, "Unregistered"))
       ELSE \E p \in PlayerByFingerprint(fp) :
              /\ pc' = [pc EXCEPT ![r] = "ng_active"]
              /\ loc' = [loc EXCEPT ![r] = [NoLoc EXCEPT !.fp = fp, !.pid = p]]
              /\ resp' = [resp EXCEPT ![r] = NoResp]

\* faulty variant: new_game without the check for an active game
NewGameSelectActiveSkip(r) ==
  /\ pc[r] = "ng_active"
  /\ pc' = [pc EXCEPT ![r] = "ng_pick"]
  /\ UNCHANGED <<db, loc, resp, nreq, pre, ev, lb>>

\* new_game: the SELECT of an existing active game (one=True: any matching row)
NewGameSelectActive(r) ==
  /\ pc[r] = "ng_active"
  /\ IF ActiveGames(loc[r].pid) = {}
     THEN /\ pc' = [pc EXCEPT ![r] = "ng_pick"]
          /\ UNCHANGED loc
     ELSE \E g \in ActiveGames(loc[r].pid) :
            /\ pc' = [pc EXCEPT ![r] = "ng_resume"]
            /\ loc' = [loc EXCEPT ![r].gid = g]
  /\ UNCHANGED <<db, resp, nreq, pre, ev, lb>>

\* new_game: the SELECT of the active game's guesses and the resume response
NewGameResume(r) ==
  /\ pc[r] = "ng_resume"
  /\ \E order \in OrderByNumber(loc[r].gid, GuessRows(loc[r].gid)) :
       Return(r, [NoResp EXCEPT !.op = "new_game", !.fp = loc[r].fp, !.code = 200,
                                !.game_id = loc[r].gid,
                                !.guesses = SerializeGuesses(loc[r].gid, order)])
  /\ UNCHANGED <<db, nreq, pre, ev, lb>>

\* word ids that are the target of some game of the player
UsedWords(pid) == {games[g].word_id : g \in {h \in 1..Len(games) : games[h].player_id = pid}}

\* faulty variant: the word SELECT without its NOT IN condition
PickWordAny(pid) == WordIds

\* the rows the word SELECTs can return: an unseen word, or, when there is
\* none, any word (ORDER BY RANDOM() LIMIT 1)
PickWord(pid) ==
  IF WordIds \ UsedWords(pid) # {} THEN WordIds \ UsedWords(pid) ELSE WordIds

\* new_game: the word SELECT and its fallback.  The fallback reads the words
\* table alone, which no handler writes, so it is taken in the same step.
NewGamePick(r) ==
  /\ pc[r] = "ng_pick"
  /\ IF PickWord(loc[r].pid) = {}
     THEN Return(r, ErrorResp("new_game", loc[r].fp, 500, "NoWords"))
     ELSE \E w \in PickWord(loc[r].pid) :
            /\ pc' = [pc EXCEPT ![r] = "ng_insert"]
            /\ loc' = [loc EXCEPT ![r].wid = w]
            /\ UNCHANGED resp
  /\ UNCHANGED <<db, nreq, pre, ev, lb>>

\* the row INSERT INTO games (player_id, word_id) creates
NewGameRow(pid, wid) ==
  [player_id |-> pid, word_id |-> wid, status |-> "active", num_guesses |-> 0,
   completed |-> FALSE]

\* new_game: the INSERT INTO games and the 201 response
NewGameInsert(r) ==
  /\ pc[r] = "ng_insert"
  /\ Len(games) < MaxGames
  /\ games' = Append(games, NewGameRow(loc[r].pid, loc[r].wid))
  /\ Return(r, [NoResp EXCEPT !.op = "new_game", !.fp = loc[r].fp, !.code = 201,
                              !.game_id = Len(games) + 1])
  /\ UNCHANGED <<players, guesses, nreq, pre, ev, lb>>

\* ----------------------------------------------------------- current_game
\* current_game, up to the SELECT of the player
CurrentLookup(r, capped) ==
  /\ Arrive(r, capped)
  /\ UNCHANGED <<db, ev, lb>>
  /\ \E fp \in Fingerprints :
       IF PlayerByFingerprint(fp) = {}
       THEN Return(r, ErrorResp("current_game", fp, 401, "Unregistered"))
       ELSE \E p \in PlayerByFingerprint(fp) :
              /\ pc' = [pc EXCEPT ![r] = "cg_game"]
              /\ loc' = [loc EXCEPT ![r] = [NoLoc EXCEPT !.fp = fp, !.pid = p]]
              /\ resp' = [resp EXCEPT ![r] = NoResp]

\* current_game: the SELECT of the active game
CurrentSelectGame(r) ==
  /\ pc[r] = "cg_game"
  /\ IF ActiveGames(loc[r].pid) = {}
     THEN Return(r, ErrorResp("current_game", loc[r].fp, 404, "NoActiveGame"))
     ELSE \E g \in ActiveGames(loc[r].pid) :
            /\ pc' = [pc EXCEPT ![r] = "cg_guesses"]
            /\ loc' = [loc EXCEPT ![r].gid = g,
                                  ![r].status = games[g].status,
                                  ![r].num_guesses = games[g].num_guesses]
            /\ UNCHANGED resp
  /\ UNCHANGED <<db, nreq, pre, ev, lb>>

\* current_game: the SELECT of the guesses and the response
CurrentGuesses(r) ==
  /\ pc[r] = "cg_guesses"
  /\ \E order \in OrderByNumber(loc[r].gid, GuessRows(loc[r].gid)) :
       Return(r, [NoResp EXCEPT !.op = "current_game", !.fp = loc[r].fp, !.code = 200,
                                !.game_id = loc[r].gid,
                                !.status = loc[r].status,
                                !.num_guesses = loc[r].num_guesses,
                                !.guesses = SerializeGuesses(loc[r].gid, order)])
  /\ UNCHANGED <<db, nreq, pre, ev, lb>>

\* ------------------------------------------------------------------ guess
\* the guess after which a game that is not won is lost
MaxGuesses == 6

\* guess, up to the SELECT of the player
GuessLookup(r, capped) ==
  /\ Arrive(r, capped)
  /\ UNCHANGED <<db, ev, lb>>
  /\ \E fp \in Fingerprints, raw \in RawGuesses :
       IF PlayerByFingerprint(fp) = {}
       THEN Return(r, GuessError(fp, raw, 401, "Unregistered"))
       ELSE \E p \in PlayerByFingerprint(fp) :
              /\ pc' = [pc EXCEPT ![r] = "gs_game"]
              /\ loc' = [loc EXCEPT ![r] = [NoLoc EXCEPT !.fp = fp, !.raw = raw, !.pid = p]]
              /\ resp' = [resp EXCEPT ![r] = NoResp]

\* faulty variant: the sixth guess loses before it is compared with the target
NewStatusLostFirst(guess_word, target, guess_number) ==
  IF guess_number = MaxGuesses THEN "lost"
  ELSE IF guess_word = target THEN "won" ELSE "active"

\* faulty variant: a guess equal to the target does not win
NewStatusNeverWon(guess_word, target, guess_number) ==
  IF guess_number = MaxGuesses THEN "lost" ELSE "active"

\* new_status of routes.py:259-267
NewStatus(guess_word, target, guess_number) ==
  LET won == guess_word = target
      lost == guess_number = MaxGuesses /\ ~won
  IN  IF won THEN "won" ELSE IF lost THEN "lost" ELSE "active"

\* lost of routes.py:260
Lost(guess_word, target, guess_number) ==
  guess_number = MaxGuesses /\ ~(guess_word = target)

\* faulty variant: the submitted guess is checked before the active game is
\* looked for
GuessSelectGameWordFirst(r) ==
  /\ pc[r] = "gs_game"
  /\ LET guess_word == Normalize(loc[r].raw) IN
     IF ~WellFormed(guess_word)
     THEN Return(r, GuessError(loc[r].fp, loc[r].raw, 400, "InvalidGuess"))
     ELSE IF guess_word \notin Bank
     THEN Return(r, GuessError(loc[r].fp, loc[r].raw, 400, "UnknownWord"))
     ELSE IF ActiveGames(loc[r].pid) = {}
     THEN Return(r, GuessError(loc[r].fp, loc[r].raw, 404, "NoActiveGame"))
     ELSE \E g \in ActiveGames(loc[r].pid) :
            LET target == WordOf(games[g].word_id)
                guess_number == games[g].num_guesses + 1
            IN  /\ pc' = [pc EXCEPT ![r] = "gs_insert"]
                /\ loc' = [loc EXCEPT
                     ![r].gid = g,
                     ![r].num_guesses = games[g].num_guesses,
                     ![r].target = target,
                     ![r].guess_word = guess_word,
                     ![r].guess_number = guess_number,
                     ![r].result = EvaluateGuess(guess_word, target),
                     ![r].new_status = NewStatus(guess_word, target, guess_number),
                     ![r].lost = Lost(guess_word, target, guess_number)]
                /\ UNCHANGED resp
  /\ UNCHANGED <<db, nreq, pre, ev, lb>>

\* guess: the SELECT of the active game joined with its word, the checks of
\* the submitted guess and the evaluation.  The dictionary SELECT reads the
\* words table alone, which no handler writes, so it is taken in the same step.
GuessSelectGame(r) ==
  /\ pc[r] = "gs_game"
  /\ IF ActiveGames(loc[r].pid) = {}
     THEN Return(r, GuessError(loc[r].fp, loc[r].raw, 404, "NoActiveGame"))
     ELSE \E g \in ActiveGames(loc[r].pid) :
            LET guess_word == Normalize(loc[r].raw)
                target == WordOf(games[g].word_id)
                guess_number == games[g].num_guesses + 1
            IN  IF ~WellFormed(guess_word)
                THEN Return(r, GuessError(loc[r].fp, loc[r].raw, 400, "InvalidGuess"))
                ELSE IF guess_word \notin Bank
                THEN Return(r, GuessError(loc[r].fp, loc[r].raw, 400, "UnknownWord"))
                ELSE /\ pc' = [pc EXCEPT ![r] = "gs_insert"]
                     /\ loc' = [loc EXCEPT
                          ![r].gid = g,
                          ![r].num_guesses = games[g].num_guesses,
                          ![r].target = target,
                          ![r].guess_word = guess_word,
                          ![r].guess_number = guess_number,
                          ![r].result = EvaluateGuess(guess_word, target),
                          ![r].new_status = NewStatus(guess_word, target, guess_number),
                          ![r].lost = Lost(guess_word, target, guess_number)]
                     /\ UNCHANGED resp
  /\ UNCHANGED <<db, nreq, pre, ev, lb>>

\* guess: the INSERT INTO guesses
GuessInsert(r) ==
  /\ pc[r] = "gs_insert"
  /\ guesses' = [guesses EXCEPT ![loc[r].gid] = Append(@,
        [game_id |-> loc[r].gid, guess_word |-> loc[r].guess_word,
         guess_number |-> loc[r].guess_number, result |-> loc[r].result])]
  /\ pc' = [pc EXCEPT ![r] = "gs_update"]
  /\ UNCHANGED <<players, games, loc, resp, nreq, pre, ev, lb>>

\* faulty variant: the UPDATE that ends a game leaves num_guesses as it was
UpdatedGameStatusOnly(row, guess_number, new_status) ==
  IF new_status \in {"won", "lost"}
  THEN [row EXCEPT !.status = new_status, !.completed = TRUE]
  ELSE [row EXCEPT !.num_guesses = guess_number]

\* faulty variant: the UPDATE that ends a game does not set completed_at
UpdatedGameNoStamp(row, guess_number, new_status) ==
  IF new_status \in {"won", "lost"}
  THEN [row EXCEPT !.num_guesses = guess_number, !.status = new_status]
  ELSE [row EXCEPT !.num_guesses = guess_number]

\* the games row after the UPDATE of routes.py:277-287
UpdatedGame(row, guess_number, new_status) ==
  IF new_status \in {"won", "lost"}
  THEN [row EXCEPT !.num_guesses = guess_number, !.status = new_status,
                   !.completed = TRUE]
  ELSE [row EXCEPT !.num_guesses = guess_number]

\* guess: the UPDATE games ... WHERE id = %s
GuessUpdate(r) ==
  /\ pc[r] = "gs_update"
  /\ games' = [games EXCEPT ![loc[r].gid] =
                 UpdatedGame(@, loc[r].guess_number, loc[r].new_status)]
  /\ pc' = [pc EXCEPT ![r] = "gs_resp"]
  /\ UNCHANGED <<players, guesses, loc, resp, nreq, pre, ev, lb>>

\* faulty variant: the answer is put in every guess response
AnswerAlways(lost, target) == target

\* resp['answer'] of routes.py:315-316
Answer(lost, target) == IF lost THEN target ELSE NoWord

\* guess: the SELECT of all guesses and the response
GuessRespond(r) ==
  /\ pc[r] = "gs_resp"
  /\ \E order \in OrderByNumber(loc[r].gid, GuessRows(loc[r].gid)) :
       Return(r, [NoResp EXCEPT !.op = "guess", !.fp = loc[r].fp,
                                !.raw = loc[r].raw, !.code = 200,
                                !.game_id = loc[r].gid,
                                !.status = loc[r].new_status,
                                !.num_guesses = loc[r].guess_number,
                                !.guess = loc[r].guess_word,
                                !.guesses = SerializeGuesses(loc[r].gid, order),
                                !.answer = Answer(loc[r].lost, loc[r].target)])
  /\ UNCHANGED <<db, nreq, pre, ev, lb>>

\* -------------------------------------------------------------------- stats
\* the player's finished games in the order created
TerminalGames(pid) ==
  SelectSeq(games, LAMBDA g : g.player_id = pid /\ g.status \in {"won", "lost"})

\* the length of the run of won games that ends the history
RECURSIVE TrailingWins(_)
TrailingWins(history) ==
  IF history = <<>> \/ history[Len(history)].status # "won" THEN 0
  ELSE 1 + TrailingWins(SubSeq(history, 1, Len(history) - 1))

Max(S) == CHOOSE x \in S : \A y \in S : x >= y

\* the longest run of won games anywhere in the history
BestRun(history) ==
  Max({TrailingWins(SubSeq(history, 1, k)) : k \in 0..Len(history)})

\* the won games of a history
Wins(history) == SelectSeq(history, LAMBDA g : g.status = "won")

RECURSIVE SumGuesses(_)
SumGuesses(history) ==
  IF history = <<>> THEN 0
  ELSE history[1].num_guesses + SumGuesses(Tail(history))

\* an average kept exactly, as the sum and the number of values; NULL of none
Avg(sum, n) == IF n = 0 THEN NoAvg ELSE <<sum, n>>

\* the row of view leaderboard_stats for a history of finished games
ViewRow(pid, history) ==
  [player_id |-> pid,
   games_played |-> Len(history),
   games_won |-> Len(Wins(history)),
   avg_guesses_per_win |-> Avg(SumGuesses(Wins(history)), Len(Wins(history))),
   current_streak |-> TrailingWins(history),
   best_streak |-> BestRun(history)]

\* SELECT ... FROM leaderboard_stats WHERE player_id = %s: the rows returned
LeaderboardStats(pid) ==
  IF TerminalGames(pid) = <<>> THEN {} ELSE {ViewRow(pid, TerminalGames(pid))}

\* the digits float() keeps of a quotient, as a multiple of 1/FloatScale
FloatScale == 100

\* float(numeric): a representable value next to the quotient, none of NULL
Float(avg) == IF avg = NoAvg THEN NoAvg ELSE <<(avg[1] * FloatScale) \div avg[2]>>

\* faulty variant: the two streaks in each other's place
StatsBodySwapped(rows) ==
  IF rows = {} THEN NoStats
  ELSE LET row == CHOOSE x \in rows : TRUE IN
       [games_won |-> row.games_won,
        games_lost |-> row.games_played - row.games_won,
        avg_guesses |-> Float(row.avg_guesses_per_win),
        current_streak |-> row.best_streak,
        best_streak |-> row.current_streak]

\* the body of the stats response, from the rows the SELECT returned
StatsBody(rows) ==
  IF rows = {} THEN NoStats
  ELSE LET row == CHOOSE x \in rows : TRUE IN
       [games_won |-> row.games_won,
        games_lost |-> row.games_played - row.games_won,
        avg_guesses |-> Float(row.avg_guesses_per_win),
        current_streak |-> row.current_streak,
        best_streak |-> row.best_streak]

\* stats, up to the SELECT of the player
StatsLookup(r, capped) ==
  /\ Arrive(r, capped)
  /\ UNCHANGED <<db, ev, lb>>
  /\ \E fp \in Fingerprints :
       IF PlayerByFingerprint(fp) = {}
       THEN Return(r, ErrorResp("stats", fp, 404, "NotFound"))
       ELSE \E p \in PlayerByFingerprint(fp) :
            /\ pc' = [pc EXCEPT ![r] = "st_row"]
            /\ loc' = [loc EXCEPT ![r] = [NoLoc EXCEPT !.fp = fp, !.pid = p]]
            /\ resp' = [resp EXCEPT ![r] = NoResp]

\* stats: the SELECT from the view and the response
StatsSelect(r) ==
  /\ pc[r] = "st_row"
  /\ Return(r, [NoResp EXCEPT !.op = "stats", !.fp = loc[r].fp, !.code = 200,
                              !.player = loc[r].pid,
                              !.stats = StatsBody(LeaderboardStats(loc[r].pid))])
  /\ UNCHANGED <<db, nreq, pre, ev, lb>>

\* -------------------------------------------------------------- leaderboard
\* WHERE games_won >= 5
ChampionWins == 5

\* LIMIT 20
LeaderboardLimit == 20

\* the rows of a view, as the number of rows of each kind, that remain
Remaining(view) == {k \in DOMAIN view : view[k] > 0}

\* the number of rows of a view
RECURSIVE CountRows(_, _)
CountRows(view, kinds) ==
  IF kinds = {} THEN 0
  ELSE LET k == CHOOSE x \in kinds : TRUE
       IN  view[k] + CountRows(view, kinds \ {k})

\* faulty variant: the champions query without its WHERE
WhereAll(view) == view

\* WHERE games_won >= 5
WhereChampion(view) ==
  [k \in DOMAIN view |-> IF k.games_won >= ChampionWins THEN view[k] ELSE 0]

\* x sorts before y in ascending order of an exact average; NULL sorts last
AvgBefore(x, y) ==
  IF x = NoAvg THEN FALSE
  ELSE IF y = NoAvg THEN TRUE
  ELSE x[1] * y[2] < y[1] * x[2]

\* ORDER BY avg_guesses_per_win ASC: every order of the rows that ascends in
\* the average (rows with equal averages come in any order)
RECURSIVE OrderByAvg(_)
OrderByAvg(view) ==
  IF Remaining(view) = {} THEN { <<>> }
  ELSE LET firsts == {k \in Remaining(view) : \A j \in Remaining(view) :
                        ~AvgBefore(j.avg_guesses_per_win, k.avg_guesses_per_win)}
       IN  UNION { { <<k>> \o rest : rest \in OrderByAvg([view EXCEPT ![k] = @ - 1]) } :
                   k \in firsts }

\* ORDER BY games_won DESC: every order of the rows that descends in games_won
RECURSIVE OrderByWon(_)
OrderByWon(view) ==
  IF Remaining(view) = {} THEN { <<>> }
  ELSE LET firsts == {k \in Remaining(view) : \A j \in Remaining(view) :
                        j.games_won <= k.games_won}
       IN  UNION { { <<k>> \o rest : rest \in OrderByWon([view EXCEPT ![k] = @ - 1]) } :
                   k \in firsts }

\* LIMIT n
Limit(rows, n) == SubSeq(rows, 1, Min({n, Len(rows)}))

\* _serialize of leaderboard
Serialize(rows) ==
  [i \in 1..Len(rows) |->
     [name |-> rows[i].name,
      games_won |-> rows[i].games_won,
      games_played |-> rows[i].games_played,
      avg_guesses_per_win |-> Float(rows[i].avg_guesses_per_win),
      current_streak |-> rows[i].current_streak,
      best_streak |-> rows[i].best_streak]]

\* leaderboard: the champions query
LeaderboardChampions ==
  /\ lb.phase = "drawn"
  /\ \E rows \in OrderByAvg(WhereChampion(lb.view)) :
       lb' = [lb EXCEPT !.phase = "lb_prolific",
                        !.champions = Limit(rows, LeaderboardLimit)]
  /\ UNCHANGED <<db, pc, loc, resp, nreq, pre, ev>>

\* leaderboard: the prolific query and the response
LeaderboardProlific ==
  /\ lb.phase = "lb_prolific"
  /\ \E rows \in OrderByWon(lb.view) :
       lb' = [lb EXCEPT !.phase = "returned",
                        !.champions = Serialize(lb.champions),
                        !.prolific = Serialize(Limit(rows, LeaderboardLimit))]
  /\ UNCHANGED <<db, pc, loc, resp, nreq, pre, ev>>

\* stats of a player found by fingerprint: the SELECT from the view returns
\* no row or the player's row, and the response
StatsOfView ==
  /\ lb.phase = "drawn"
  /\ \E rows \in {{}} \cup {{k} : k \in Remaining(lb.view)} :
       lb' = [lb EXCEPT !.phase = "stats", !.rows = rows, !.stats = StatsBody(rows)]
  /\ UNCHANGED <<db, pc, loc, resp, nreq, pre, ev>>

\* -------------------------------------------------------- specifications
\* a step of worker r; capped: the requests that may arrive are bounded
Step(r, capped) ==
  \/ RegisterLookup(r, capped)
  \/ RegisterInsert(r)
  \/ NewGameLookup(r, capped)
  \/ NewGameSelectActive(r)
  \/ NewGameResume(r)
  \/ NewGamePick(r)
  \/ NewGameInsert(r)
  \/ CurrentLookup(r, capped)
  \/ CurrentSelectGame(r)
  \/ CurrentGuesses(r)
  \/ GuessLookup(r, capped)
  \/ GuessSelectGame(r)
  \/ GuessInsert(r)
  \/ GuessUpdate(r)
  \/ GuessRespond(r)
  \/ StatsLookup(r, capped)
  \/ StatsSelect(r)

\* handlers interleave at their storage steps
Next == \E r \in Reqs : Step(r, TRUE)

Spec == Init /\ [][Next]_vars

\* one request at a time: a single worker serves every request, so each
\* handler runs to its response before the next request arrives
SeqWorker == CHOOSE r \in Reqs : TRUE

SeqNext == Step(SeqWorker, FALSE)

SeqSpec == Init /\ [][SeqNext]_vars

\* the evaluator alone, on every pair of 5-letter words over Letters
Words5 == [1..5 -> Letters]

EvalInit ==
  /\ players = <<>>
  /\ games = <<>>
  /\ guesses = [g \in 1..MaxGames |-> <<>>]
  /\ pc = [r \in Reqs |-> "idle"]
  /\ loc = [r \in Reqs |-> NoLoc]
  /\ resp = [r \in Reqs |-> NoResp]
  /\ nreq = 0
  /\ pre = [players |-> <<>>, games |-> <<>>, guesses |-> [g \in 1..MaxGames |-> <<>>]]
  /\ lb = NoLb
  /\ \E g \in Words5, t \in Words5 :
       ev = [NoEv EXCEPT !.phase = "call", !.guess = g, !.target = t]

Evaluate ==
  /\ ev.phase = "call"
  /\ ev' = [ev EXCEPT !.phase = "returned",
                      !.result = EvaluateGuess(ev.guess, ev.target)]
  /\ UNCHANGED <<db, pc, loc, resp, nreq, pre, lb>>

\* a second call with the same arguments
EvaluateAgain ==
  /\ ev.phase = "returned"
  /\ ev' = [ev EXCEPT !.phase = "again",
                      !.again = EvaluateGuess(ev.guess, ev.target)]
  /\ UNCHANGED <<db, pc, loc, resp, nreq, pre, lb>>

EvalNext == Evaluate \/ EvaluateAgain

EvalSpec == EvalInit /\ [][EvalNext]_vars

\* the leaderboard and stats queries alone, on every view of up to
\* MaxViewRows rows drawn from a few kinds of row
MaxViewRows == 21

\* finished games of a history
WonIn(n) == [status |-> "won", num_guesses |-> n]
LostGame == [status |-> "lost", num_guesses |-> MaxGuesses]

\* the view's row, joined with the player's name, for a history
LeaderRow(history) ==
  LET row == ViewRow(0, history) IN
  [name |-> <<"a">>,
   games_won |-> row.games_won,
   games_played |-> row.games_played,
   avg_guesses_per_win |-> row.avg_guesses_per_win,
   current_streak |-> row.current_streak,
   best_streak |-> row.best_streak]

\* five wins in three guesses each
KindFive == LeaderRow([i \in 1..5 |-> WonIn(3)])
\* six wins among eight games, a higher average
KindSix ==
  LeaderRow(<<WonIn(3), WonIn(3), WonIn(3), WonIn(3), LostGame, LostGame,
              WonIn(3), WonIn(4)>>)
\* four wins only, the lowest average
KindFour == LeaderRow(<<WonIn(2), WonIn(2), WonIn(2), LostGame, WonIn(3), LostGame>>)
\* no win: a NULL average
KindNone == LeaderRow(<<LostGame, LostGame>>)
\* seven wins, the same average as KindFive
KindSeven == LeaderRow([i \in 1..7 |-> WonIn(3)])

ViewKinds == {KindFive, KindSix, KindFour, KindNone, KindSeven}

\* how many rows of each kind a drawn view may hold
MaxOfKind(k) ==
  IF k \in {KindFive, KindFour} THEN MaxViewRows
  ELSE IF k = KindSix THEN 2 ELSE 1

Views ==
  {view \in [ViewKinds -> 0..MaxViewRows] :
     /\ \A k \in ViewKinds : view[k] <= MaxOfKind(k)
     /\ CountRows(view, ViewKinds) <= MaxViewRows}

LeaderInit ==
  /\ players = <<>>
  /\ games = <<>>
  /\ guesses = [g \in 1..MaxGames |-> <<>>]
  /\ pc = [r \in Reqs |-> "idle"]
  /\ loc = [r \in Reqs |-> NoLoc]
  /\ resp = [r \in Reqs |-> NoResp]
  /\ nreq = 0
  /\ pre = [players |-> <<>>, games |-> <<>>, guesses |-> [g \in 1..MaxGames |-> <<>>]]
  /\ ev = NoEv
  /\ \E view \in Views : lb = [NoLb EXCEPT !.phase = "drawn", !.view = view]

LeaderNext == LeaderboardChampions \/ LeaderboardProlific \/ StatsOfView

LeaderSpec == LeaderInit /\ [][LeaderNext]_vars

\* ------------------------------------------------------------------ claims
\* the response of the single worker of SeqSpec
SeqResp == resp[SeqWorker]

\* the active games the player of fingerprint fp had when the request arrived
PreActive(fp) ==
  {g \in 1..Len(pre.games) :
     /\ pre.games[g].status = "active"
     /\ pre.players[pre.games[g].player_id].fingerprint = fp}

\* C1: with one request at a time, in every reachable state each player owns
\* at most one game whose status is 'active'.
C1_OneActiveGamePerPlayer ==
  \A p \in 1..Len(players) :
    Cardinality({g \in 1..Len(games) :
                   games[g].player_id = p /\ games[g].status = "active"}) <= 1

\* C1's case: a player who finished a game and started another asks for a
\* new game again and is given the active one.
C1_Witness ==
  \E g, h \in 1..Len(games) :
    /\ games[g].player_id = games[h].player_id
    /\ games[g].status # "active"
    /\ games[h].status = "active"
    /\ SeqResp.op = "new_game" /\ SeqResp.code = 200 /\ SeqResp.game_id = h

\* C2: new_game requests of one player that interleave at their storage steps
\* create one active game only: the player never has two active games.
C2_ConcurrentNewGameCreatesOne ==
  \A g, h \in 1..Len(games) :
    (games[g].player_id = games[h].player_id
       /\ games[g].status = "active" /\ games[h].status = "active") => g = h

\* C3: new_game by a player who has an active game answers 200 with that
\* game's id and its guesses in ascending guess_number order and leaves every
\* table as it was (so the next call finds the same game); it answers 201
\* only for a player who had no active game.
C3_ResumeIsIdempotent ==
  (SeqResp.op = "new_game" /\ SeqResp.code \in {200, 201}) =>
    /\ SeqResp.code = 200 <=> PreActive(SeqResp.fp) # {}
    /\ SeqResp.code = 200 =>
         LET g == SeqResp.game_id
             list == SeqResp.guesses
         IN  /\ PreActive(SeqResp.fp) = {g}
             /\ Tables = pre
             /\ Len(list) = Len(pre.guesses[g])
             /\ \A k \in 1..(Len(list) - 1) :
                  list[k].guess_number < list[k + 1].guess_number
             /\ \A k \in 1..Len(list) :
                  \E i \in 1..Len(pre.guesses[g]) :
                    /\ pre.guesses[g][i].guess_word = list[k].guess
                    /\ pre.guesses[g][i].guess_number = list[k].guess_number
                    /\ pre.guesses[g][i].result = list[k].result

\* C3's case: a game with three guesses is resumed.
C3_Witness ==
  /\ SeqResp.op = "new_game" /\ SeqResp.code = 200
  /\ Len(SeqResp.guesses) = 3
  /\ games[SeqResp.game_id].num_guesses = 3

\* C4: an accepted guess on an active game with n guesses (0 <= n <= 5) makes
\* the count n+1 and the status 'won' if the guess is the target, else 'lost'
\* if n+1 = 6, else 'active'.
C4_GuessOutcome ==
  (SeqResp.op = "guess" /\ SeqResp.code = 200) =>
    LET g == SeqResp.game_id
        n == pre.games[g].num_guesses
        word == Normalize(SeqResp.raw)
        target == WordOf(pre.games[g].word_id)
        expected == IF word = target THEN "won"
                    ELSE IF n + 1 = 6 THEN "lost" ELSE "active"
    IN  /\ pre.games[g].status = "active"
        /\ n \in 0..5
        /\ games[g].num_guesses = n + 1
        /\ games[g].status = expected
        /\ SeqResp.num_guesses = n + 1
        /\ SeqResp.status = expected

\* C4's case: the sixth guess is the target and the game is won.
C4_Witness ==
  /\ SeqResp.op = "guess" /\ SeqResp.code = 200
  /\ SeqResp.num_guesses = 6
  /\ games[SeqResp.game_id].status = "won"
  /\ SeqResp.guess = WordOf(games[SeqResp.game_id].word_id)

\* C5: a response carries the target as 'answer' exactly when it is the
\* response to a sixth guess that is not the target, which makes the game
\* 'lost'; no other response of new_game, current_game or guess carries one.
C5_AnswerOnlyWhenLost ==
  SeqResp.code # 0 =>
    /\ SeqResp.answer # NoWord <=>
         /\ SeqResp.op = "guess" /\ SeqResp.code = 200
         /\ pre.games[SeqResp.game_id].num_guesses = 5
         /\ Normalize(SeqResp.raw) # WordOf(games[SeqResp.game_id].word_id)
    /\ SeqResp.answer # NoWord =>
         /\ SeqResp.answer = WordOf(games[SeqResp.game_id].word_id)
         /\ games[SeqResp.game_id].status = "lost"
         /\ SeqResp.status = "lost"
    /\ (SeqResp.op = "guess" /\ SeqResp.code = 200 /\ SeqResp.answer = NoWord) =>
         games[SeqResp.game_id].status \in {"active", "won"}

\* C5's case: the sixth wrong guess is answered with the target.
C5_Witness ==
  /\ SeqResp.op = "guess" /\ SeqResp.status = "lost"
  /\ Len(SeqResp.guesses) = 6
  /\ SeqResp.answer = WordOf(games[SeqResp.game_id].word_id)
  /\ SeqResp.answer # SeqResp.guess

\* exactly five characters, each a letter
FiveLetters(w) ==
  /\ Len(w) = 5
  /\ \A i \in 1..Len(w) : w[i] \in {"a", "b", "c", "d", "A", "B"}

\* C6: a guess that, trimmed and lower-cased, is not exactly five letters is
\* refused as InvalidGuess, and a five-letter guess that is not in the bank as
\* UnknownWord; both leave every table as it was when the request arrived.
C6_RejectedGuessChangesNothing ==
  (SeqResp.op = "guess" /\ SeqResp.code # 0 /\ PreActive(SeqResp.fp) # {}) =>
    LET word == Normalize(SeqResp.raw) IN
    /\ ~FiveLetters(word) => SeqResp.error = "InvalidGuess"
    /\ (FiveLetters(word) /\ word \notin Bank) => SeqResp.error = "UnknownWord"
    /\ (FiveLetters(word) /\ word \in Bank) => SeqResp.error = ""
    /\ SeqResp.error \in {"InvalidGuess", "UnknownWord"} =>
         /\ SeqResp.code = 400
         /\ Tables = pre

\* C6's case: a five-letter word that is not in the bank is refused on a game
\* that already has guesses.
C6_Witness ==
  /\ SeqResp.op = "guess" /\ SeqResp.error = "UnknownWord"
  /\ \E g \in PreActive(SeqResp.fp) : games[g].num_guesses >= 2
  /\ \E q \in Fingerprints : q # SeqResp.fp /\ PreActive(q) # {}

\* C7: a game whose status is 'won' or 'lost' never changes again: no step
\* changes its row or adds a guess to it.
C7_TerminalGameImmutable ==
  [][\A g \in 1..Len(games) :
       games[g].status \in {"won", "lost"} =>
         /\ games'[g] = games[g]
         /\ guesses'[g] = guesses[g]]_vars

\* C8: a guess is all-or-nothing: in no state does a guess row numbered k
\* exist for a game whose num_guesses is still below k.
C8_GuessAllOrNothing ==
  \A g \in 1..Len(games) :
    \A i \in 1..Len(guesses[g]) :
      guesses[g][i].guess_number <= games[g].num_guesses

\* C9: once the guess requests have returned, no two guess rows of a game
\* carry the same guess_number and the game's num_guesses is the number of
\* its guess rows.
C9_GuessNumbersUnique ==
  (\A r \in Reqs : pc[r] = "idle") =>
    \A g \in 1..Len(games) :
      /\ \A i, j \in 1..Len(guesses[g]) :
           guesses[g][i].guess_number = guesses[g][j].guess_number => i = j
      /\ games[g].num_guesses = Len(guesses[g])

\* positions of word w holding letter L
Positions(w, L) == {i \in 1..5 : w[i] = L}

\* C10: for all 5-letter g and t, _evaluate_guess(g, t) returns five entries
\* carrying g's letters in order, marks position i 'correct' iff g[i] = t[i],
\* and for every letter L marks at most count(L in t) positions of g holding
\* L as 'correct' or 'present'.
C10_EvaluateConservesCounts ==
  ev.phase = "returned" =>
    /\ Len(ev.result) = 5
    /\ \A i \in 1..5 :
         /\ ev.result[i].letter = ev.guess[i]
         /\ ev.result[i].status \in {"correct", "present", "absent"}
         /\ ev.result[i].status = "correct" <=> ev.guess[i] = ev.target[i]
    /\ \A L \in Letters :
         Cardinality({i \in Positions(ev.guess, L) :
                        ev.result[i].status \in {"correct", "present"}})
           <= Cardinality(Positions(ev.target, L))

\* C10's case: the guess holds a letter more often than the target does, and
\* one of its occurrences is marked 'present' and another 'absent'.
C10_Witness ==
  /\ ev.phase = "returned"
  /\ \E L \in Letters :
       /\ Cardinality(Positions(ev.guess, L)) > Cardinality(Positions(ev.target, L))
       /\ \E i, j \in Positions(ev.guess, L) :
            /\ ev.result[i].status = "present"
            /\ ev.result[j].status = "absent"
       /\ \E k \in Positions(ev.guess, L) : ev.result[k].status = "correct"

\* the name with the spaces at both ends removed is empty
BlankName(raw) == \A i \in 1..Len(raw) : raw[i] = " "

\* the players registered under fingerprint fp when the request arrived
PrePlayers(fp) == {p \in 1..Len(pre.players) : pre.players[p].fingerprint = fp}

\* what register answers, with one request at a time
C11_RegisterOutcome ==
  (SeqResp.op = "register" /\ SeqResp.code # 0) =>
    /\ BlankName(SeqResp.raw) =>
         SeqResp.error = "InvalidInput" /\ SeqResp.code = 400 /\ Tables = pre
    /\ (~BlankName(SeqResp.raw) /\ PrePlayers(SeqResp.fp) # {}) =>
         SeqResp.error = "Conflict" /\ SeqResp.code = 409 /\ Tables = pre
    /\ (~BlankName(SeqResp.raw) /\ PrePlayers(SeqResp.fp) = {}) =>
         /\ SeqResp.code = 201
         /\ Len(players) = Len(pre.players) + 1
         /\ players[Len(players)].fingerprint = SeqResp.fp

\* no step changes or removes a row of players
C11_PlayersKept ==
  \A p \in 1..Len(players) :
    Len(players') >= Len(players) /\ players'[p] = players[p]

\* C11: register with a name that is blank after trimming fails with
\* InvalidInput and register from a fingerprint that has a player fails with
\* Conflict, neither creating nor changing a player; and no operation ever
\* modifies or deletes a player row.
C11_RegisterErrorsAndPlayersImmutable ==
  []C11_RegisterOutcome /\ [][C11_PlayersKept]_vars

\* C11's case: a second registration from a fingerprint whose player has a
\* game is refused, while another fingerprint is registered too.
C11_Witness ==
  /\ SeqResp.op = "register" /\ SeqResp.error = "Conflict"
  /\ Len(players) = 2
  /\ \E g \in 1..Len(games) : players[games[g].player_id].fingerprint = SeqResp.fp

\* word ids that were the target of a game of the player when the request
\* arrived
PreUsedWords(pid) ==
  {pre.games[g].word_id : g \in {h \in 1..Len(pre.games) : pre.games[h].player_id = pid}}

\* C12: when new_game creates a game and the bank holds a word that was never
\* the target of a game of that player, whatever the status of those games,
\* the new game's target is such a word; the target repeats an earlier one
\* only when the player has had every word of the bank.
C12_NewGameTargetUnused ==
  (SeqResp.op = "new_game" /\ SeqResp.code = 201) =>
    LET game == games[SeqResp.game_id]
        unused == WordIds \ PreUsedWords(game.player_id) IN
    /\ Len(games) = Len(pre.games) + 1
    /\ SeqResp.game_id = Len(games)
    /\ game.word_id \in WordIds
    /\ unused # {} => game.word_id \in unused
    /\ game.word_id \in PreUsedWords(game.player_id) => unused = {}

\* C12's case: a player whose earlier game ended gets a game on the other word
C12_Witness ==
  /\ SeqResp.op = "new_game" /\ SeqResp.code = 201
  /\ PreUsedWords(games[SeqResp.game_id].player_id) # {}
  /\ games[SeqResp.game_id].word_id \notin PreUsedWords(games[SeqResp.game_id].player_id)

\* what stats answers for player pid from the tables as they are
StatsOf(pid) == StatsBody(LeaderboardStats(pid))

\* what stats answers for the first k finished games of a history
StatsAfter(pid, history, k) ==
  StatsBody(IF k = 0 THEN {} ELSE {ViewRow(pid, SubSeq(history, 1, k))})

\* along every player's finished games in the order created
C13_AlongHistory ==
  \A p \in 1..Len(players) :
    LET history == TerminalGames(p) IN
    \A k \in 1..Len(history) :
      LET before == StatsAfter(p, history, k - 1)
          after == StatsAfter(p, history, k) IN
      /\ history[k].status = "lost" => after.current_streak = 0
      /\ history[k].status = "won" => after.current_streak = before.current_streak + 1
      /\ after.best_streak >= before.best_streak
      /\ after.current_streak <= after.best_streak

\* a stats response is the answer for the tables as they are
C13_StatsResponse ==
  (SeqResp.op = "stats" /\ SeqResp.code = 200) =>
    /\ SeqResp.stats = StatsOf(SeqResp.player)
    /\ SeqResp.stats.current_streak <= SeqResp.stats.best_streak

\* as a game completes (the view reads games alone)
C13_AsGamesComplete ==
  games' # games =>
  \A p \in 1..Len(players) :
    /\ StatsOf(p)'.best_streak >= StatsOf(p).best_streak
    /\ \A g \in 1..Len(games) :
         (games[g].player_id = p /\ games[g].status = "active") =>
           /\ games'[g].status = "lost" => StatsOf(p)'.current_streak = 0
           /\ games'[g].status = "won" =>
                StatsOf(p)'.current_streak = StatsOf(p).current_streak + 1

C14_UnregisteredAndNoActiveGame ==
  (SeqResp.op \in {"new_game", "current_game", "guess"} /\ SeqResp.code # 0) =>
    /\ PrePlayers(SeqResp.fp) = {} =>
         SeqResp.error = "Unregistered" /\ SeqResp.code = 401 /\ Tables = pre
    /\ ( /\ SeqResp.op \in {"current_game", "guess"}
         /\ PrePlayers(SeqResp.fp) # {}
         /\ PreActive(SeqResp.fp) = {} ) =>
         SeqResp.error = "NoActiveGame" /\ SeqResp.code = 404 /\ Tables = pre

\* C14's case: a malformed guess of a registered player whose only game is over
C14_Witness ==
  /\ SeqResp.op = "guess" /\ SeqResp.error = "NoActiveGame"
  /\ ~WellFormed(Normalize(SeqResp.raw))
  /\ \E g \in 1..Len(games) :
       /\ players[games[g].player_id].fingerprint = SeqResp.fp
       /\ games[g].status = "won"
  /\ Tables = pre

\* no request is being served
Idle == \A r \in Reqs : pc[r] = "idle"

\* the guess_numbers of the rows of game g
GuessNumbers(g) == {guesses[g][i].guess_number : i \in 1..Len(guesses[g])}

\* between requests the rows of a game are numbered exactly 1..num_guesses;
\* while a guess is between its INSERT and its UPDATE its own row is the one
\* numbered num_guesses + 1
C15_Counts ==
  \A g \in 1..Len(games) :
    /\ 0 <= games[g].num_guesses /\ games[g].num_guesses <= MaxGuesses
    /\ games[g].status = "active" => games[g].num_guesses <= MaxGuesses - 1
    /\ \A i \in 1..Len(guesses[g]) : guesses[g][i].guess_number = i
    /\ Idle => /\ Len(guesses[g]) = games[g].num_guesses
               /\ GuessNumbers(g) = 1..games[g].num_guesses
    /\ Len(guesses[g]) \in {games[g].num_guesses, games[g].num_guesses + 1}

\* no step changes or removes a guess row
C15_GuessesKept ==
  \A g \in 1..MaxGames :
    /\ Len(guesses'[g]) >= Len(guesses[g])
    /\ \A i \in 1..Len(guesses[g]) : guesses'[g][i] = guesses[g][i]

C16_CompletedIffTerminal ==
  \A g \in 1..Len(games) :
    /\ games[g].completed <=> games[g].status \in {"won", "lost"}
    /\ games[g].status \in {"active", "won", "lost"}

\* C16's case: a lost game, stamped, beside an active game with guesses,
\* not stamped
C16_Witness ==
  /\ \E g \in 1..Len(games) : games[g].status = "lost" /\ games[g].completed
  /\ \E g \in 1..Len(games) :
       games[g].status = "active" /\ games[g].num_guesses >= 1 /\ ~games[g].completed

Settled(g) == SubSeq(guesses[g], 1, Min({games[g].num_guesses, Len(guesses[g])}))

\* the guesses in rows equal the target of game g
OnTarget(g, rows) == {i \in 1..Len(rows) : rows[i].guess_word = WordOf(games[g].word_id)}

NonCorrect(L) == {i \in Positions(ev.guess, L) : ev.result[i].status # "correct"}

Qualifying == CountRows(WhereChampion(lb.view), ViewKinds)

\* C20: the champions list holds only players with games_won >= 5, in
\* non-decreasing order of avg_guesses_per_win, at most 20 of them; the
\* prolific list is in non-increasing order of games_won, at most 20 entries;
\* stats reports games_lost = games_played - games_won, and a player without
\* a row of statistics as 0 won, 0 lost, null average and zero streaks.
C20_LeaderboardAndStats ==
  /\ lb.phase = "returned" =>
       /\ Len(lb.champions) <= 20
       /\ \A i \in 1..Len(lb.champions) :
            /\ lb.champions[i].games_won >= 5
            /\ lb.champions[i].avg_guesses_per_win # NoAvg
       /\ \A i, j \in 1..Len(lb.champions) :
            i < j => lb.champions[i].avg_guesses_per_win[1]
                       <= lb.champions[j].avg_guesses_per_win[1]
       /\ Len(lb.prolific) <= 20
       /\ \A i, j \in 1..Len(lb.prolific) :
            i < j => lb.prolific[i].games_won >= lb.prolific[j].games_won
  /\ lb.phase = "stats" =>
       /\ lb.rows = {} =>
            /\ lb.stats.games_won = 0 /\ lb.stats.games_lost = 0
            /\ lb.stats.avg_guesses = NoAvg
            /\ lb.stats.current_streak = 0 /\ lb.stats.best_streak = 0
       /\ \A row \in lb.rows :
            /\ lb.stats.games_won = row.games_won
            /\ lb.stats.games_lost = row.games_played - row.games_won

\* C20's case: more than 20 players have five wins or more; both lists are
\* cut at 20, the champions hold two different averages and the prolific
\* list two different numbers of wins
C20_Witness ==
  /\ lb.phase = "returned"
  /\ Qualifying > 20
  /\ Len(lb.champions) = 20 /\ Len(lb.prolific) = 20
  /\ lb.champions[1].avg_guesses_per_win # lb.champions[20].avg_guesses_per_win
  /\ lb.prolific[1].games_won > lb.prolific[20].games_won

=============================================================================
